---- MODULE Spec2Model ----
(***************************************************************************)
(* JSON-RPC 2.0 engine of glaze (include/glaze/ext/jsonrpc.hpp):           *)
(* rpc::server (call, per_request, batch_request, on) and rpc::client      *)
(* (request, notify, call) as a state machine over structured JSON texts.  *)
(***************************************************************************)
EXTENDS Integers, Sequences, FiniteSets, TLC

(***************************************************************************)
(* Bounds of the model.                                                    *)
(***************************************************************************)
\* longest batch array the caller of server::call sends
MaxBatch == 3
\* number of client::request calls that pass a callback (non-null id)
MaxIssues == 3

(***************************************************************************)
(* enum error_e and code_as_sv.                                            *)
(***************************************************************************)
no_error == 0
server_error_lower == -32000
server_error_upper == -32099
invalid_request == -32600
method_not_found == -32601
invalid_params == -32602
internal == -32603
parse_error == -32700

code_as_sv(error_code) ==
  CASE error_code = no_error -> "No error"
    [] error_code = parse_error -> "Parse error"
    [] error_code = server_error_lower -> "Server error"
    [] error_code = server_error_upper -> "Server error"
    [] error_code = invalid_request -> "Invalid request"
    [] error_code = method_not_found -> "Method not found"
    [] error_code = invalid_params -> "Invalid params"
    [] error_code = internal -> "Internal error"
    [] OTHER -> "Unknown"

supported_version == "2.0"

(***************************************************************************)
(* C++ values.  std::optional, glz::expected, id_t (a variant over null,   *)
(* string and 64-bit integer) and the values of the methods' params_t and  *)
(* result_t are tagged records; a JSON text is a different tagged record   *)
(* (below), so that decoding and encoding are conversions.                 *)
(***************************************************************************)
None == [has |-> FALSE]
Some(v) == [has |-> TRUE, v |-> v]

Ok(v) == [ok |-> TRUE, v |-> v]
Err(e) == [ok |-> FALSE, e |-> e]

IdNull == [k |-> "null"]
IdStr(s) == [k |-> "str", s |-> s]
IdInt(n) == [k |-> "int", n |-> n]

VInt(n) == [ty |-> "int", n |-> n]
VStr(s) == [ty |-> "str", s |-> s]
\* a value of a result type whose encoding fails
VUnwritable == [ty |-> "unwritable"]
\* glz::raw_json / raw_json_view: a piece of JSON text kept as it is
VRaw(j) == [ty |-> "raw", j |-> j]

\* struct error: the three constructors that take arguments
error1(code) == [code |-> code, data |-> None, message |-> code_as_sv(code)]
error2(code, data) == [code |-> code, data |-> data, message |-> code_as_sv(code)]
error3(code, data, message) == [code |-> code, data |-> data, message |-> message]
\* error(): the no-error sentinel
error0 == error1(no_error)
\* error::operator bool
error_bool(e) == e.code # no_error

(***************************************************************************)
(* JSON texts.  JInvalid is a text that is not syntactically valid JSON,   *)
(* JEmpty the empty string; the others are the JSON values.  An object is  *)
(* a function from the keys it holds to their values.                      *)
(***************************************************************************)
JInvalid == [t |-> "invalid"]
JEmpty == [t |-> "empty"]
JNull == [t |-> "null"]
JBool(b) == [t |-> "bool", b |-> b]
JInt(n) == [t |-> "int", n |-> n]
JStr(s) == [t |-> "str", s |-> s]
JArr(a) == [t |-> "arr", a |-> a]
JObj(o) == [t |-> "obj", o |-> o]
\* a member left out of an object
Absent == [t |-> "absent"]
NoMembers == [key \in {} |-> Absent]
Member(key, j) == IF j = Absent THEN NoMembers ELSE (key :> j)
Has(j, key) == j.t = "obj" /\ key \in DOMAIN j.o
Get(j, key) == IF Has(j, key) THEN j.o[key] ELSE Absent

\* whether string s contains string p
Contains(s, p) == \E i \in 1..(Len(s) - Len(p) + 1) : SubSeq(s, i, i + Len(p) - 1) = p

(***************************************************************************)
(* The codec (glz::validate_json, read_json, write_json, get_as_json,      *)
(* format_error), by its interface: a decode of a text into a shape gives  *)
(* the value or a parse failure.                                           *)
(***************************************************************************)
validate_json(text) == text.t \notin {"invalid", "empty"}

format_error(pe) == "parse failure: " \o pe

\* reading a text into a value of shape ty: "int", "str", "id", "raw", and
\* "doc", a user type that reads from a JSON string and whose writer fails on
\* the value VUnwritable
can_read(ty, j) ==
  CASE ty = "int" -> j.t = "int"
    [] ty = "str" -> j.t = "str"
    [] ty = "doc" -> j.t = "str"
    [] ty = "id" -> j.t \in {"null", "str", "int"}
    [] ty = "raw" -> j.t \notin {"invalid", "empty", "absent"}
    [] OTHER -> FALSE

read_value(ty, j) ==
  CASE ty = "int" -> VInt(j.n)
    [] ty = "str" -> VStr(j.s)
    [] ty = "doc" -> VStr(j.s)
    [] ty = "raw" -> VRaw(j)

read_id(j) ==
  CASE j.t = "null" -> IdNull
    [] j.t = "str" -> IdStr(j.s)
    [] j.t = "int" -> IdInt(j.n)

\* a value of shape ty as constructed by default (a member the text leaves out)
default_value(ty) ==
  CASE ty = "int" -> VInt(0)
    [] ty = "str" -> VStr("")
    [] ty = "doc" -> VStr("")
    [] ty = "raw" -> VRaw(JEmpty)

write_value(v) ==
  CASE v.ty = "int" -> Ok(JInt(v.n))
    [] v.ty = "str" -> Ok(JStr(v.s))
    [] v.ty = "raw" -> Ok(v.j)
    [] v.ty = "unwritable" -> Err("write failure")

write_id(id) ==
  CASE id.k = "null" -> JNull
    [] id.k = "str" -> JStr(id.s)
    [] id.k = "int" -> JInt(id.n)

\* struct error's glaze metadata: code, message, data (a null data is left out)
write_error(e) ==
  JObj(("code" :> JInt(e.code)) @@ ("message" :> JStr(e.message))
       @@ (IF e.data.has THEN ("data" :> JStr(e.data.v)) ELSE NoMembers))

\* glz::read_json<std::vector<glz::raw_json_view>>
read_batch(text) == IF text.t = "arr" THEN Ok(text.a) ELSE Err("expected_bracket")

\* glz::get_as_json<id_t, "/id">
get_id(text) ==
  IF Has(text, "id") /\ can_read("id", text.o["id"])
    THEN Ok(read_id(text.o["id"]))
    ELSE Err("get_nonexistent_json_ptr")

(***************************************************************************)
(* Envelopes: request_t<Params> and response_t<Result> and their decoding. *)
(* A member the text leaves out keeps the value the struct constructs; a   *)
(* key the struct does not declare, or a member of the wrong JSON type, is *)
(* a parse failure.                                                        *)
(***************************************************************************)
request_keys == {"jsonrpc", "method", "params", "id"}
response_keys == {"jsonrpc", "result", "error", "id"}
error_keys == {"code", "message", "data"}

\* a variant that drops the error it is given
response_err_dropped(err) ==
  [id |-> IdNull, result |-> None, error |-> None, version |-> supported_version]

\* response_t's three constructors that take arguments
response_err(err) ==
  [id |-> IdNull, result |-> None, error |-> Some(err), version |-> supported_version]
response_id_result(id, result) ==
  [id |-> id, result |-> Some(result), error |-> None, version |-> supported_version]
response_id_err(id, err) ==
  [id |-> id, result |-> None, error |-> Some(err), version |-> supported_version]

\* glz::read_json<request_t<Params>>, Params of shape ptype
read_request(ptype, text) ==
  IF text.t # "obj" THEN Err("expected_brace")
  ELSE IF ~(DOMAIN text.o \subseteq request_keys) THEN Err("unknown_key")
  ELSE IF \/ Has(text, "jsonrpc") /\ ~can_read("str", text.o["jsonrpc"])
          \/ Has(text, "method") /\ ~can_read("str", text.o["method"])
          \/ Has(text, "id") /\ ~can_read("id", text.o["id"])
          \/ Has(text, "params") /\ ~can_read(ptype, text.o["params"])
       THEN Err("type_mismatch")
  ELSE Ok([id |-> IF Has(text, "id") THEN read_id(text.o["id"]) ELSE IdNull,
           method |-> IF Has(text, "method") THEN text.o["method"].s ELSE "",
           params |-> IF Has(text, "params") THEN read_value(ptype, text.o["params"])
                      ELSE default_value(ptype),
           version |-> IF Has(text, "jsonrpc") THEN text.o["jsonrpc"].s
                       ELSE supported_version])

\* an optional member: null or left out is the empty optional
opt_present(text, key) == Has(text, key) /\ text.o[key].t # "null"

can_read_error(j) ==
  /\ j.t = "obj"
  /\ DOMAIN j.o \subseteq error_keys
  /\ Has(j, "code") => can_read("int", j.o["code"])
  /\ Has(j, "message") => can_read("str", j.o["message"])
  /\ opt_present(j, "data") => can_read("str", j.o["data"])

read_error(j) ==
  [code |-> IF Has(j, "code") THEN j.o["code"].n ELSE no_error,
   data |-> IF opt_present(j, "data") THEN Some(j.o["data"].s) ELSE None,
   message |-> IF Has(j, "message") THEN j.o["message"].s
               ELSE code_as_sv(no_error)]

\* glz::read_json<response_t<Result>>, Result of shape rtype
read_response(rtype, text) ==
  IF text.t # "obj" THEN Err("expected_brace")
  ELSE IF ~(DOMAIN text.o \subseteq response_keys) THEN Err("unknown_key")
  ELSE IF \/ Has(text, "jsonrpc") /\ ~can_read("str", text.o["jsonrpc"])
          \/ Has(text, "id") /\ ~can_read("id", text.o["id"])
          \/ opt_present(text, "result") /\ ~can_read(rtype, text.o["result"])
          \/ opt_present(text, "error") /\ ~can_read_error(text.o["error"])
       THEN Err("type_mismatch")
  ELSE Ok([id |-> IF Has(text, "id") THEN read_id(text.o["id"]) ELSE IdNull,
           result |-> IF opt_present(text, "result")
                        THEN Some(read_value(rtype, text.o["result"])) ELSE None,
           error |-> IF opt_present(text, "error")
                       THEN Some(read_error(text.o["error"])) ELSE None,
           version |-> IF Has(text, "jsonrpc") THEN text.o["jsonrpc"].s
                       ELSE supported_version])

\* glz::write_json of a response_t<glz::raw_json>: empty optionals are left out
write_response(r) ==
  JObj(("jsonrpc" :> JStr(r.version))
       @@ (IF r.result.has THEN ("result" :> r.result.v.j) ELSE NoMembers)
       @@ (IF r.error.has THEN ("error" :> write_error(r.error.v)) ELSE NoMembers)
       @@ ("id" :> write_id(r.id)))

write_responses(vec) == JArr([i \in 1..Len(vec) |-> write_response(vec[i])])

\* glz::write_json of a request_t<Params>
write_request(req) ==
  JObj(("jsonrpc" :> JStr(req.version)) @@ ("method" :> JStr(req.method))
       @@ ("params" :> write_value(req.params).v) @@ ("id" :> write_id(req.id)))

(***************************************************************************)
(* struct error's named constructors.                                      *)
(***************************************************************************)
\* a variant that reports the failure under the code invalid_params
error_invalid_params(pe) ==
  error3(invalid_params,
         IF format_error(pe) = "" THEN None ELSE Some(format_error(pe)),
         code_as_sv(invalid_params))

error_invalid(pe) ==
  LET format_err == format_error(pe)
  IN  error3(invalid_request, IF format_err = "" THEN None ELSE Some(format_err),
             code_as_sv(invalid_request))

error_version(presumed_version) ==
  error3(invalid_request,
         Some("Invalid version: " \o presumed_version \o " only supported version is "
              \o supported_version),
         code_as_sv(invalid_request))

\* a variant that does not say which method was asked for
error_method_unnamed(presumed_method) ==
  error3(method_not_found, Some("Method not found"), code_as_sv(method_not_found))

error_method(presumed_method) ==
  error3(method_not_found, Some("Method: '" \o presumed_method \o "' not found"),
         code_as_sv(method_not_found))

(***************************************************************************)
(* The method descriptors the server and the client are instantiated with, *)
(* in declaration order: foo(int) -> int and bar(string) -> doc.           *)
(***************************************************************************)
Methods == <<"foo", "bar">>
MethodNames == {Methods[i] : i \in 1..Len(Methods)}
params_t(name) == IF name = "foo" THEN "int" ELSE "str"
result_t(name) == IF name = "foo" THEN "int" ELSE "doc"

\* The handlers a caller registers with server::on, by what they do, and the
\* handler a server_method_t starts with ("default").
\* "unwritable" returns a value the codec cannot write: only bar's result type
\* has one.
UserHandlers(name) == IF name = "bar" THEN {"ok", "fail", "unwritable"} ELSE {"ok", "fail"}

\* a variant whose default handler returns a value
invoke_default_value(handler, name, params) ==
  CASE handler \in {"default", "ok"} ->
         IF name = "foo" THEN Ok(VInt(params.n + 10)) ELSE Ok(VStr("re:" \o params.s))
    [] handler = "fail" -> Err(error2(server_error_lower, Some("handler failed")))
    [] handler = "unwritable" -> Ok(VUnwritable)

\* std::invoke(method.callback, params)
invoke(handler, name, params) ==
  CASE handler = "default" -> Err(error2(internal, Some("Not implemented")))
    [] handler = "fail" -> Err(error2(server_error_lower, Some("handler failed")))
    [] handler = "unwritable" -> Ok(VUnwritable)
    [] handler = "ok" ->
         IF name = "foo" THEN Ok(VInt(params.n + 10)) ELSE Ok(VStr("re:" \o params.s))

\* a variant that takes the last
Max(S) == CHOOSE x \in S : \A y \in S : x >= y

Min(S) == CHOOSE x \in S : \A y \in S : x <= y

(***************************************************************************)
(* State.                                                                  *)
(***************************************************************************)
VARIABLES
  handlers,   \* server::methods: each method's callback
  srvPc,      \* the server's caller: "idle", or "returned" from server::call
  srvIn,      \* the json_request and return_t of the call that returned, or the registration made
  srvRet,     \* what that call returned
  srvInv,     \* the handler invocations of that call, in order
  pending,    \* client::methods: each method's pending_requests
  nextCb,     \* the callbacks passed to client::request so far, plus one
  cbCount,    \* how often each callback has been invoked
  cliLast,    \* the client's last operation: its arguments, return and effects
  wire,       \* the text in flight between the client and the server
  frames,     \* per caller, the client::call activations in progress, innermost last
  sync        \* whether the callers serialize their operations on the client

srvVars == <<handlers, srvPc, srvIn, srvRet, srvInv>>
cliVars == <<pending, nextCb, cbCount, cliLast>>
stepVars == <<frames, sync>>
vars == <<handlers, srvPc, srvIn, srvRet, srvInv, pending, nextCb, cbCount, cliLast, wire,
          frames, sync>>

(***************************************************************************)
(* server::per_request.  The value is the optional response and the        *)
(* handler invocations made on the way.                                    *)
(***************************************************************************)
Outcome(resp, inv) == [resp |-> resp, inv |-> inv]
Invocation(name, params, result) == [method |-> name, params |-> params, result |-> result]

\* a variant that answers under the null id
success_response_null_id(req, json_result) ==
  IF req.id.k = "null" THEN None
  ELSE Some(response_id_result(IdNull, VRaw(json_result)))

\* a variant that answers notifications too
success_response_always(req, json_result) ==
  Some(response_id_result(req.id, VRaw(json_result)))

\* the response to a request whose handler's result was written to json_result:
\* none when the request is a notification
success_response(req, json_result) ==
  IF req.id.k = "null" THEN None
  ELSE Some(response_id_result(req.id, VRaw(json_result)))

\* a variant that answers no notification, whatever its outcome
visit_method_quiet(h, name, req, json_request) ==
  LET params_request == read_request(params_t(name), json_request) IN
  IF params_request.ok
    THEN LET result == invoke(h[name], name, params_request.v.params)
             inv == <<Invocation(name, params_request.v.params, result)>>
         IN  IF req.id.k = "null" THEN Outcome(None, inv)
             ELSE IF result.ok
               THEN LET json_result == write_value(result.v) IN
                    IF json_result.ok
                      THEN Outcome(success_response(req, json_result.v), inv)
                      ELSE Outcome(Some(response_id_err(req.id,
                                     error2(parse_error, Some(format_error(json_result.e))))), inv)
               ELSE Outcome(Some(response_id_err(req.id, result.e)), inv)
    ELSE IF req.id.k = "null" THEN Outcome(None, <<>>)
    ELSE Outcome(Some(response_id_err(req.id, error_invalid(params_request.e))), <<>>)

\* a variant that calls the handler of the first method, whatever the name
visit_method_first_handler(h, name, req, json_request) ==
  LET params_request == read_request(params_t(name), json_request) IN
  IF params_request.ok
    THEN LET result == invoke(h[Methods[1]], name, params_request.v.params)
             inv == <<Invocation(name, params_request.v.params, result)>>
         IN  IF result.ok
               THEN LET json_result == write_value(result.v) IN
                    IF json_result.ok
                      THEN Outcome(success_response(req, json_result.v), inv)
                      ELSE Outcome(Some(response_id_err(req.id,
                                     error2(parse_error, Some(format_error(json_result.e))))), inv)
               ELSE Outcome(Some(response_id_err(req.id, result.e)), inv)
    ELSE Outcome(Some(response_id_err(req.id, error_invalid(params_request.e))), <<>>)

\* the lambda per_request passes to methods.any, for the method named name
visit_method(h, name, req, json_request) ==
  LET params_request == read_request(params_t(name), json_request) IN
  IF params_request.ok
    THEN LET result == invoke(h[name], name, params_request.v.params)
             inv == <<Invocation(name, params_request.v.params, result)>>
         IN  IF result.ok
               THEN LET json_result == write_value(result.v) IN
                    IF json_result.ok
                      THEN Outcome(success_response(req, json_result.v), inv)
                      ELSE Outcome(Some(response_id_err(req.id,
                                     error2(parse_error, Some(format_error(json_result.e))))), inv)
               ELSE Outcome(Some(response_id_err(req.id, result.e)), inv)
    ELSE Outcome(Some(response_id_err(req.id, error_invalid(params_request.e))), <<>>)

\* a variant that does not look for the id of a request it cannot read
per_request_no_salvage(h, json_request) ==
  LET request == read_request("raw", json_request) IN
  IF ~request.ok
    THEN Outcome(Some(response_err(error_invalid(request.e))), <<>>)
    ELSE LET req == request.v IN
         IF req.version # supported_version
           THEN Outcome(Some(response_id_err(req.id, error_version(req.version))), <<>>)
           ELSE LET found == {i \in 1..Len(Methods) : req.method = Methods[i]} IN
                IF found = {}
                  THEN Outcome(Some(response_id_err(req.id, error_method(req.method))), <<>>)
                  ELSE visit_method(h, Methods[Min(found)], req, json_request)

\* a variant that does not look at the version
per_request_any_version(h, json_request) ==
  LET request == read_request("raw", json_request) IN
  IF ~request.ok
    THEN LET id == get_id(json_request) IN
         IF ~id.ok
           THEN Outcome(Some(response_err(error_invalid(request.e))), <<>>)
           ELSE Outcome(Some(response_id_err(id.v, error_invalid(request.e))), <<>>)
    ELSE LET req == request.v
             found == {i \in 1..Len(Methods) : req.method = Methods[i]}
         IN  IF found = {}
               THEN Outcome(Some(response_id_err(req.id, error_method(req.method))), <<>>)
               ELSE visit_method(h, Methods[Min(found)], req, json_request)

per_request(h, json_request) ==
  LET request == read_request("raw", json_request) IN
  IF ~request.ok
    THEN LET id == get_id(json_request) IN
         IF ~id.ok
           THEN Outcome(Some(response_err(error_invalid(request.e))), <<>>)
           ELSE Outcome(Some(response_id_err(id.v, error_invalid(request.e))), <<>>)
    ELSE LET req == request.v IN
         IF req.version # supported_version
           THEN Outcome(Some(response_id_err(req.id, error_version(req.version))), <<>>)
           ELSE LET found == {i \in 1..Len(Methods) : req.method = Methods[i]} IN
                IF found = {}
                  THEN Outcome(Some(response_id_err(req.id, error_method(req.method))), <<>>)
                  ELSE visit_method(h, Methods[Min(found)], req, json_request)

(***************************************************************************)
(* server::batch_request: per_request on each element in order, the        *)
(* responses that exist appended to the vector.                            *)
(***************************************************************************)
\* a variant that stops at the first element answered by an error
RECURSIVE batch_from_until_error(_, _, _)
batch_from_until_error(h, batch_requests, i) ==
  IF i > Len(batch_requests) THEN Outcome(<<>>, <<>>)
  ELSE LET response == per_request(h, batch_requests[i])
           rest == IF response.resp.has /\ response.resp.v.error.has
                     THEN Outcome(<<>>, <<>>)
                     ELSE batch_from_until_error(h, batch_requests, i + 1)
       IN  Outcome((IF response.resp.has THEN <<response.resp.v>> ELSE <<>>) \o rest.resp,
                   response.inv \o rest.inv)

\* a variant that works through the elements last first and returns the
\* responses in the order of the elements
RECURSIVE batch_from_last(_, _, _)
batch_from_last(h, batch_requests, i) ==
  IF i > Len(batch_requests) THEN Outcome(<<>>, <<>>)
  ELSE LET response == per_request(h, batch_requests[i])
           rest == batch_from_last(h, batch_requests, i + 1)
       IN  Outcome((IF response.resp.has THEN <<response.resp.v>> ELSE <<>>) \o rest.resp,
                   rest.inv \o response.inv)

RECURSIVE batch_from(_, _, _)
batch_from(h, batch_requests, i) ==
  IF i > Len(batch_requests) THEN Outcome(<<>>, <<>>)
  ELSE LET response == per_request(h, batch_requests[i])
           rest == batch_from(h, batch_requests, i + 1)
       IN  Outcome((IF response.resp.has THEN <<response.resp.v>> ELSE <<>>) \o rest.resp,
                   response.inv \o rest.inv)

\* a variant that returns the responses last first
batch_request_reversed(h, batch_requests) ==
  LET out == batch_from(h, batch_requests, 1)
      n == Len(out.resp)
  IN  Outcome([i \in 1..n |-> out.resp[n + 1 - i]], out.inv)

batch_request(h, batch_requests) == batch_from(h, batch_requests, 1)

(***************************************************************************)
(* server::call<return_t>.  return_t is "string" (std::string) or "vector" *)
(* (std::vector<raw_response_t>); the value returned is tagged with it.    *)
(***************************************************************************)
ReturnTs == {"string", "vector"}
RetString(text) == [rt |-> "string", text |-> text]
RetVector(vec) == [rt |-> "vector", vec |-> vec]

\* a variant that writes a single response as a list of one
return_helper_one_listed(return_t, response) ==
  IF return_t = "string" THEN RetString(write_responses(<<response>>))
  ELSE RetVector(<<response>>)

\* return_helper on a single raw_response_t
return_helper_one(return_t, response) ==
  IF return_t = "string" THEN RetString(write_response(response))
  ELSE RetVector(<<response>>)

\* return_helper on a vector of raw_response_t
return_helper_vec(return_t, responses) ==
  IF return_t = "string" THEN RetString(write_responses(responses))
  ELSE RetVector(responses)

\* return {}
return_empty(return_t) == IF return_t = "string" THEN RetString(JEmpty) ELSE RetVector(<<>>)

\* a variant that does not validate the text first
call_unvalidated(return_t, h, json_request) ==
  LET batch_requests == read_batch(json_request) IN
  IF batch_requests.ok /\ batch_requests.v = <<>>
    THEN Outcome(return_helper_one(return_t, response_err(error1(invalid_request))), <<>>)
  ELSE IF batch_requests.ok
    THEN LET batch == batch_request(h, batch_requests.v)
         IN  Outcome(return_helper_vec(return_t, batch.resp), batch.inv)
  ELSE LET response == per_request(h, json_request) IN
       IF response.resp.has
         THEN Outcome(return_helper_one(return_t, response.resp.v), response.inv)
         ELSE Outcome(return_empty(return_t), response.inv)

call(return_t, h, json_request) ==
  IF ~validate_json(json_request)
    THEN Outcome(return_helper_one(return_t,
                   response_err(error2(parse_error, Some(format_error("syntax_error"))))), <<>>)
    ELSE LET batch_requests == read_batch(json_request) IN
         IF batch_requests.ok /\ batch_requests.v = <<>>
           THEN Outcome(return_helper_one(return_t, response_err(error1(invalid_request))), <<>>)
         ELSE IF batch_requests.ok
           THEN LET batch == batch_request(h, batch_requests.v)
                IN  Outcome(return_helper_vec(return_t, batch.resp), batch.inv)
         ELSE LET response == per_request(h, json_request) IN
              IF response.resp.has
                THEN Outcome(return_helper_one(return_t, response.resp.v), response.inv)
                ELSE Outcome(return_empty(return_t), response.inv)

(***************************************************************************)
(* The texts a caller passes to server::call.                              *)
(***************************************************************************)
Request(version, method, params, id) ==
  JObj(Member("jsonrpc", version) @@ Member("method", method)
       @@ Member("params", params) @@ Member("id", id))

\* single requests: every combination of these members; a method of 7 and an
\* id of true have the wrong JSON type for the envelope
VersionTexts == {JStr("2.0"), JStr("1.0")}
MethodTexts == {JStr("foo"), JStr("bar"), JStr("nope"), JInt(7)}
ParamsTexts == {JInt(1), JStr("a")}
IdTexts == {Absent, JNull, JInt(1), JStr("a"), JBool(TRUE)}
SingleTexts ==
  {Request(v, m, p, i) : v \in VersionTexts, m \in MethodTexts, p \in ParamsTexts, i \in IdTexts}
    \cup {JInvalid, JEmpty, JInt(5), JStr("foo")}

\* the elements of batches
BatchElems ==
  { Request(JStr("2.0"), JStr("foo"), JInt(1), JInt(1)),
    Request(JStr("2.0"), JStr("foo"), JInt(1), Absent),
    Request(JStr("2.0"), JStr("bar"), JStr("a"), JNull),
    Request(JStr("2.0"), JStr("nope"), JInt(1), JStr("a")),
    Request(JStr("1.0"), JStr("foo"), JInt(1), Absent),
    Request(JStr("2.0"), JInt(7), JInt(1), JInt(1)),
    JInt(5) }

SeqsUpTo(S, n) == UNION {[1..k -> S] : k \in 0..n}
BatchTexts == {JArr(a) : a \in SeqsUpTo(BatchElems, MaxBatch)}
ServerTexts == SingleTexts \cup BatchTexts

(***************************************************************************)
(* The server's operations.                                                *)
(***************************************************************************)
NoCall == [rt |-> "none", text |-> Absent]
NoRet == [rt |-> "none"]

InitServer ==
  /\ handlers = [name \in MethodNames |-> "default"]
  /\ srvPc = "idle"
  /\ srvIn = NoCall
  /\ srvRet = NoRet
  /\ srvInv = <<>>

\* the caller is done with what the last call returned
Forget ==
  /\ srvPc' = "idle"
  /\ srvIn' = NoCall
  /\ srvRet' = NoRet
  /\ srvInv' = <<>>

\* a variant that assigns the callback to every method
set_callback_all(methods, name, callback) == [other \in DOMAIN methods |-> callback]

\* detail::set_callback<name>(methods, callback): methods.any assigns
\* method.callback of the one method whose name_v is name
set_callback(methods, name, callback) == [methods EXCEPT ![name] = callback]

\* what server::on was last called with
Registered(name, callback) ==
  [rt |-> "on", text |-> Absent, name |-> name, callback |-> callback]

\* server::on<name>(callback); what an earlier call returned is the caller's
\* no longer
On(name, callback) ==
  /\ handlers' = set_callback(handlers, name, callback)
  /\ srvPc' = "idle"
  /\ srvIn' = Registered(name, callback)
  /\ srvRet' = NoRet
  /\ srvInv' = <<>>

\* server::call<return_t>(json_request)
Call(return_t, json_request) ==
  /\ LET out == call(return_t, handlers, json_request) IN
       /\ srvRet' = out.resp
       /\ srvInv' = out.inv
  /\ srvIn' = [rt |-> return_t, text |-> json_request]
  /\ srvPc' = "returned"
  /\ UNCHANGED handlers

\* the caller takes the returned value and is free to call again
Take ==
  /\ srvPc = "returned"
  /\ Forget
  /\ UNCHANGED handlers

(***************************************************************************)
(* The client's state at construction.                                     *)
(***************************************************************************)
NoEntries == [id \in {} |-> 0]

InitClient ==
  /\ pending = [name \in MethodNames |-> NoEntries]
  /\ nextCb = 1
  /\ cbCount = [cb \in 1..MaxIssues |-> 0]
  /\ cliLast = [op |-> "none"]

\* the callers of the client: two, to interleave
Callers == {1, 2}

\* no client::call is in progress
InitSteps == frames = [c \in Callers |-> <<>>]

Init == InitServer /\ InitClient /\ wire = [to |-> "none"] /\ InitSteps /\ sync = FALSE

(***************************************************************************)
(* client::request<Name>(id, params, callback) and client::notify<Name>.   *)
(* A callback is known by its number: the n-th callback passed to request  *)
(* with a non-null id is n.                                                *)
(***************************************************************************)
request_t(id, method, params) ==
  [id |-> id, method |-> method, params |-> params, version |-> supported_version]

\* a variant whose table keeps only the entry inserted last
emplace_single(map, id, cb) ==
  IF id \in DOMAIN map THEN [map |-> map, inserted |-> FALSE]
  ELSE [map |-> (id :> cb), inserted |-> TRUE]

\* a variant that replaces the callback stored under an id already present
emplace_overwrite(map, id, cb) ==
  [map |-> (id :> cb) @@ [i \in (DOMAIN map) \ {id} |-> map[i]],
   inserted |-> id \notin DOMAIN map]

\* pending_requests.emplace(std::pair{id, cb}): the map and whether it inserted
emplace(map, id, cb) ==
  IF id \in DOMAIN map THEN [map |-> map, inserted |-> FALSE]
  ELSE [map |-> (id :> cb) @@ map, inserted |-> TRUE]

\* a variant that stores the callback of a null id too
request_store_null(p, name, id, cb) ==
  LET e == emplace(p[name], id, cb)
  IN  [pending |-> [p EXCEPT ![name] = e.map], inserted |-> e.inserted]

\* the pending tables after request<name>, and whether the callback was stored
request(p, name, id, cb) ==
  IF id.k = "null" THEN [pending |-> p, inserted |-> FALSE]
  ELSE LET e == emplace(p[name], id, cb)
       IN  [pending |-> [p EXCEPT ![name] = e.map], inserted |-> e.inserted]

ClientRequest(name, id, params) ==
  /\ id.k # "null" => nextCb <= MaxIssues
  /\ LET out == request(pending, name, id, nextCb) IN
       /\ pending' = out.pending
       /\ cliLast' = [op |-> "request", name |-> name, id |-> id,
                      text |-> write_request(request_t(id, name, params)),
                      accepted |-> out.inserted,
                      cb |-> IF id.k = "null" THEN 0 ELSE nextCb]
  /\ nextCb' = IF id.k = "null" THEN nextCb ELSE nextCb + 1
  /\ UNCHANGED cbCount

ClientNotify(name, params) ==
  /\ LET out == request(pending, name, IdNull, 0) IN
       /\ pending' = out.pending
       /\ cliLast' = [op |-> "notify", name |-> name,
                      text |-> write_request(request_t(IdNull, name, params))]
  /\ UNCHANGED <<nextCb, cbCount>>

(***************************************************************************)
(* client::call(json_response).  The value is the error returned, the      *)
(* pending tables afterwards and the callback invocations made.            *)
(***************************************************************************)
\* a JSON scalar as text, as glz::write_json gives it
as_text(j) ==
  CASE j.t = "null" -> "null"
    [] j.t = "int" -> ToString(j.n)
    [] j.t = "str" -> "\"" \o j.s \o "\""

\* a variant that leaves the entry in the table
erase_none(p, name, id) == p

\* a variant that empties the table
erase_all(p, name, id) == [p EXCEPT ![name] = <<>>]

\* method.pending_requests.erase(it)
erase(p, name, id) ==
  [p EXCEPT ![name] = [i \in (DOMAIN p[name]) \ {id} |-> p[name][i]]]

Resolved(ret, p, invoked) == [ret |-> ret, pending |-> p, invoked |-> invoked]
CallbackCall(cb, arg, id) == [cb |-> cb, arg |-> arg, id |-> id]

\* a variant that decodes every response in the shape of the first method
visit_pending_first_shape(p, name, res, json_response) ==
  LET callback == p[name][res.id]
      response == read_response(result_t(Methods[1]), json_response)
  IN  IF ~response.ok
        THEN Resolved(error2(parse_error, Some(format_error(response.e))),
                      erase(p, name, res.id), <<>>)
      ELSE IF response.v.result.has
        THEN Resolved(error0, erase(p, name, res.id),
                      <<CallbackCall(callback, Ok(response.v.result.v), response.v.id)>>)
      ELSE IF response.v.error.has
        THEN Resolved(error0, erase(p, name, res.id),
                      <<CallbackCall(callback, Err(response.v.error.v), response.v.id)>>)
      ELSE Resolved(error2(parse_error, Some("Missing key \"result\" or \"error\" in response")),
                    erase(p, name, res.id), <<>>)

\* a variant that leaves the entry in the table when no callback is invoked
visit_pending_kept(p, name, res, json_response) ==
  LET callback == p[name][res.id]
      response == read_response(result_t(name), json_response)
  IN  IF ~response.ok
        THEN Resolved(error2(parse_error, Some(format_error(response.e))), p, <<>>)
      ELSE IF response.v.result.has
        THEN Resolved(error0, erase(p, name, res.id),
                      <<CallbackCall(callback, Ok(response.v.result.v), response.v.id)>>)
      ELSE IF response.v.error.has
        THEN Resolved(error0, erase(p, name, res.id),
                      <<CallbackCall(callback, Err(response.v.error.v), response.v.id)>>)
      ELSE Resolved(error2(parse_error, Some("Missing key \"result\" or \"error\" in response")),
                    p, <<>>)

\* a variant that looks at the error before the result
visit_pending_error_first(p, name, res, json_response) ==
  LET callback == p[name][res.id]
      response == read_response(result_t(name), json_response)
  IN  IF ~response.ok
        THEN Resolved(error2(parse_error, Some(format_error(response.e))),
                      erase(p, name, res.id), <<>>)
      ELSE IF response.v.error.has
        THEN Resolved(error0, erase(p, name, res.id),
                      <<CallbackCall(callback, Err(response.v.error.v), response.v.id)>>)
      ELSE IF response.v.result.has
        THEN Resolved(error0, erase(p, name, res.id),
                      <<CallbackCall(callback, Ok(response.v.result.v), response.v.id)>>)
      ELSE Resolved(error2(parse_error, Some("Missing key \"result\" or \"error\" in response")),
                    erase(p, name, res.id), <<>>)

\* a variant that also returns the error it passes to the callback
visit_pending_error_returned(p, name, res, json_response) ==
  LET callback == p[name][res.id]
      response == read_response(result_t(name), json_response)
  IN  IF ~response.ok
        THEN Resolved(error2(parse_error, Some(format_error(response.e))),
                      erase(p, name, res.id), <<>>)
      ELSE IF response.v.result.has
        THEN Resolved(error0, erase(p, name, res.id),
                      <<CallbackCall(callback, Ok(response.v.result.v), response.v.id)>>)
      ELSE IF response.v.error.has
        THEN Resolved(response.v.error.v, erase(p, name, res.id),
                      <<CallbackCall(callback, Err(response.v.error.v), response.v.id)>>)
      ELSE Resolved(error2(parse_error, Some("Missing key \"result\" or \"error\" in response")),
                    erase(p, name, res.id), <<>>)

\* the lambda call passes to methods.any, for the method whose table holds res.id
visit_pending(p, name, res, json_response) ==
  LET callback == p[name][res.id]
      response == read_response(result_t(name), json_response)
  IN  IF ~response.ok
        THEN Resolved(error2(parse_error, Some(format_error(response.e))),
                      erase(p, name, res.id), <<>>)
      ELSE IF response.v.result.has
        THEN Resolved(error0, erase(p, name, res.id),
                      <<CallbackCall(callback, Ok(response.v.result.v), response.v.id)>>)
      ELSE IF response.v.error.has
        THEN Resolved(error0, erase(p, name, res.id),
                      <<CallbackCall(callback, Err(response.v.error.v), response.v.id)>>)
      ELSE Resolved(error2(parse_error, Some("Missing key \"result\" or \"error\" in response")),
                    erase(p, name, res.id), <<>>)

\* a variant that does not say which id
id_not_found_unnamed(id) == error2(internal, Some("id not found"))

\* the error for an id no table holds
id_not_found(id) ==
  IF id.k = "str"
    THEN error2(internal, Some("id: '" \o id.s \o "' not found"))
    ELSE error2(internal, Some("id: " \o as_text(write_id(id)) \o " not found"))

client_call(p, json_response) ==
  LET response == read_response("raw", json_response) IN
  IF ~response.ok
    THEN Resolved(error2(parse_error, Some(format_error(response.e))), p, <<>>)
    ELSE LET res == response.v
             found == {i \in 1..Len(Methods) : res.id \in DOMAIN p[Methods[i]]}
         IN  IF found = {}
               THEN Resolved(id_not_found(res.id), p, <<>>)
               ELSE visit_pending(p, Methods[Min(found)], res, json_response)

\* the methods whose tables hold the id of the response (none when the
\* response does not decode): what the scan of client::call can meet
Matches(p, json_response) ==
  LET response == read_response("raw", json_response)
  IN  IF response.ok THEN {name \in MethodNames : response.v.id \in DOMAIN p[name]} ELSE {}

\* the operation before was a call with the same text that invoked a callback
RepeatsCall(last, json_response) ==
  last.op = "call" /\ last.text = json_response /\ last.invoked # <<>>

ClientCall(json_response) ==
  /\ LET out == client_call(pending, json_response) IN
       /\ pending' = out.pending
       /\ cbCount' = [cb \in DOMAIN cbCount |->
                        cbCount[cb] + Cardinality({i \in 1..Len(out.invoked) : out.invoked[i].cb = cb})]
       /\ cliLast' = [op |-> "call", text |-> json_response, ret |-> out.ret,
                      invoked |-> out.invoked,
                      matches |-> Matches(pending, json_response),
                      again |-> RepeatsCall(cliLast, json_response)]
  /\ UNCHANGED nextCb

(***************************************************************************)
(* What the callers of the client pass.                                    *)
(***************************************************************************)
ClientIds == {IdNull, IdInt(1), IdStr("a")}
ParamsOf(name) == IF name = "foo" THEN {VInt(1)} ELSE {VStr("a")}

Response(result, error, id) ==
  JObj(("jsonrpc" :> JStr("2.0")) @@ Member("result", result)
       @@ Member("error", error) @@ Member("id", id))

ResultTexts == {Absent, JInt(11), JStr("re:a")}
ErrorTexts == {Absent, write_error(error2(internal, Some("Not implemented")))}
ResponseIdTexts == {Absent, JNull, JInt(1), JStr("a")}
ClientTexts ==
  {Response(r, e, i) : r \in ResultTexts, e \in ErrorTexts, i \in ResponseIdTexts}
    \cup {JInvalid, JArr(<<>>), Response(Absent, JInt(3), JInt(1))}

(***************************************************************************)
(* The server alone, its caller free to pass any text.                     *)
(***************************************************************************)
NextServer ==
  \/ \E name \in MethodNames : \E callback \in UserHandlers(name) :
       On(name, callback) /\ UNCHANGED <<cliVars, wire, stepVars>>
  \/ \E return_t \in ReturnTs, json_request \in ServerTexts :
       srvPc = "idle" /\ Call(return_t, json_request) /\ UNCHANGED <<cliVars, wire, stepVars>>
  \/ Take /\ UNCHANGED <<cliVars, wire, stepVars>>

SpecServer == Init /\ [][NextServer]_vars

(***************************************************************************)
(* The client alone, its caller free to pass any text to client::call.     *)
(***************************************************************************)
NextClient ==
  \/ \E name \in MethodNames, id \in ClientIds : \E params \in ParamsOf(name) :
       ClientRequest(name, id, params) /\ UNCHANGED <<srvVars, wire, stepVars>>
  \/ \E name \in MethodNames : \E params \in ParamsOf(name) :
       ClientNotify(name, params) /\ UNCHANGED <<srvVars, wire, stepVars>>
  \/ \E json_response \in ClientTexts :
       ClientCall(json_response) /\ UNCHANGED <<srvVars, wire, stepVars>>

SpecClient == Init /\ [][NextClient]_vars

(***************************************************************************)
(* Reading a call of the server: its input text and what it returned.      *)
(***************************************************************************)
\* the JSON response objects a returned value holds, in order
Emitted(ret) ==
  IF ret.rt = "vector" THEN [i \in 1..Len(ret.vec) |-> write_response(ret.vec[i])]
  ELSE IF ret.rt = "string" /\ ret.text.t = "arr" THEN ret.text.a
  ELSE IF ret.rt = "string" /\ ret.text.t = "obj" THEN <<ret.text>>
  ELSE <<>>

\* the returned value holds one response; as a string it is that response's
\* object, not an array
OneResponse(ret) ==
  /\ Len(Emitted(ret)) = 1
  /\ ret.rt = "string" => ret.text.t = "obj"

\* the returned value holds no response: the empty string, the empty vector
NoResponse(ret) ==
  \/ ret.rt = "string" /\ ret.text = JEmpty
  \/ ret.rt = "vector" /\ ret.vec = <<>>

\* the returned value is a list: a JSON array, a vector
IsList(ret) ==
  \/ ret.rt = "string" /\ ret.text.t = "arr"
  \/ ret.rt = "vector"

IsError(resp, code) ==
  /\ Has(resp, "error") /\ ~Has(resp, "result")
  /\ Get(Get(resp, "error"), "code") = JInt(code)

NonNullId(text) == Has(text, "id") /\ text.o["id"].t \in {"str", "int"}
NullId(text) == text.t = "obj" /\ (~Has(text, "id") \/ text.o["id"].t = "null")
\* the id a response to the request carries: the request's, null when it has none
ElemId(text) ==
  IF Has(text, "id") /\ text.o["id"].t \in {"null", "str", "int"} THEN text.o["id"] ELSE JNull

\* the request's envelope decodes, with the supported version
GoodEnvelope(text) ==
  /\ read_request("raw", text).ok
  /\ read_request("raw", text).v.version = supported_version
NamedMethod(text) == read_request("raw", text).v.method

\* processing the request reaches the handler of the method it names
Runs(text) ==
  /\ GoodEnvelope(text)
  /\ NamedMethod(text) \in MethodNames
  /\ read_request(params_t(NamedMethod(text)), text).ok

\* ... and with handlers h the handler succeeds and its result is written
Succeeds(h, text) ==
  /\ Runs(text)
  /\ LET name == NamedMethod(text)
         result == invoke(h[name], name, read_request(params_t(name), text).v.params)
     IN  result.ok /\ write_value(result.v).ok

SuccessfulNotification(h, text) == Succeeds(h, text) /\ NullId(text)

\* server::call returned from a single request (a JSON object)
ReturnedSingle == srvPc = "returned" /\ srvIn.text.t = "obj"
\* the one handler invocation of that call succeeded
HandlerSucceeded == Len(srvInv) = 1 /\ srvInv[1].result.ok
ResultWritten == HandlerSucceeded /\ write_value(srvInv[1].result.v).ok

(***************************************************************************)
(* Claims about server::call.                                              *)
(***************************************************************************)
\* C1 as stated: a single request with a non-null id that names a registered
\* method and whose handler succeeds is answered by exactly one response with
\* the request's id, a result and no error.
C1_AsStated ==
  (ReturnedSingle /\ NonNullId(srvIn.text) /\ HandlerSucceeded
     /\ srvInv[1].method = NamedMethod(srvIn.text))
  => /\ OneResponse(srvRet)
     /\ Get(Emitted(srvRet)[1], "id") = srvIn.text.o["id"]
     /\ Has(Emitted(srvRet)[1], "result")
     /\ ~Has(Emitted(srvRet)[1], "error")

\* C1 amended: a single request with a non-null id that names a registered
\* method, whose handler succeeds and whose result the codec can write, is
\* answered by exactly one response with the request's id, the written result
\* and no error.
C1_ResultResponse ==
  (ReturnedSingle /\ NonNullId(srvIn.text) /\ ResultWritten
     /\ srvInv[1].method = NamedMethod(srvIn.text))
  => /\ OneResponse(srvRet)
     /\ Get(Emitted(srvRet)[1], "id") = srvIn.text.o["id"]
     /\ Get(Emitted(srvRet)[1], "result") = write_value(srvInv[1].result.v).v
     /\ ~Has(Emitted(srvRet)[1], "error")

C1_Witness ==
  /\ ReturnedSingle /\ NonNullId(srvIn.text) /\ ResultWritten
  /\ srvInv[1].method = "bar"
  /\ srvIn.rt = "string"
  /\ Has(srvRet.text, "result")

C3_NullIdNoResponse ==
  (ReturnedSingle /\ NullId(srvIn.text)) => NoResponse(srvRet)

C5_AsStated ==
  (srvPc = "returned" /\ srvIn.text = JArr(<<>>))
  => /\ srvRet.rt = "string" /\ srvRet.text.t = "obj"
     /\ IsError(srvRet.text, invalid_request)
     /\ Get(srvRet.text, "id") = JNull

\* C5 amended: the empty batch is answered by one response with an
\* invalid_request error and a null id; returned as a string it is a single
\* response object, not an array, and returned as a vector it is a vector of
\* that one response.
C5_EmptyBatch ==
  (srvPc = "returned" /\ srvIn.text = JArr(<<>>))
  => /\ Len(Emitted(srvRet)) = 1
     /\ IsError(Emitted(srvRet)[1], invalid_request)
     /\ Get(Emitted(srvRet)[1], "id") = JNull
     /\ srvRet.rt = "string" => srvRet.text.t = "obj"
     /\ srvRet.rt = "vector" => srvRet.vec = <<response_err(error1(invalid_request))>>
     /\ srvInv = <<>>

C5_Witness ==
  /\ srvPc = "returned" /\ srvIn.text = JArr(<<>>)
  /\ srvRet.rt = "string" /\ srvRet.text.t = "obj"

\* C10 as stated: a request with the supported version whose method is not
\* registered is answered by a response with the request's id and a
\* method_not_found error whose message contains the method name; no handler
\* is invoked.
C10_AsStated ==
  (ReturnedSingle /\ GoodEnvelope(srvIn.text) /\ NamedMethod(srvIn.text) \notin MethodNames)
  => /\ OneResponse(srvRet)
     /\ Get(Emitted(srvRet)[1], "id") = ElemId(srvIn.text)
     /\ IsError(Emitted(srvRet)[1], method_not_found)
     /\ Contains(Get(Get(Emitted(srvRet)[1], "error"), "message").s, NamedMethod(srvIn.text))
     /\ srvInv = <<>>

\* C10 amended: a request with the supported version whose method is not
\* registered is answered by a response with the request's id and a
\* method_not_found error whose data contains the method name and whose
\* message is the fixed text of the code, "Method not found"; no handler is
\* invoked.
C10_MethodNotFound ==
  (ReturnedSingle /\ GoodEnvelope(srvIn.text) /\ NamedMethod(srvIn.text) \notin MethodNames)
  => /\ OneResponse(srvRet)
     /\ Get(Emitted(srvRet)[1], "id") = ElemId(srvIn.text)
     /\ IsError(Emitted(srvRet)[1], method_not_found)
     /\ Has(Get(Emitted(srvRet)[1], "error"), "data")
     /\ Contains(Get(Get(Emitted(srvRet)[1], "error"), "data").s, NamedMethod(srvIn.text))
     /\ Get(Get(Emitted(srvRet)[1], "error"), "message") = JStr("Method not found")
     /\ srvInv = <<>>

C10_Witness ==
  /\ ReturnedSingle /\ GoodEnvelope(srvIn.text) /\ NamedMethod(srvIn.text) = "nope"
  /\ Get(srvIn.text, "id") = JInt(1)
  /\ OneResponse(srvRet)
  /\ IsError(Emitted(srvRet)[1], method_not_found)

(***************************************************************************)
(* The client and the server connected: the text client::request returns   *)
(* is passed to server::call, and the string that returns to client::call. *)
(* A text not yet passed on is replaced by the next one.                   *)
(***************************************************************************)
NoWire == [to |-> "none"]
ToServer(text) == [to |-> "server", text |-> text]
ToClient(text) == [to |-> "client", text |-> text]

Register ==
  \E name \in MethodNames : \E callback \in UserHandlers(name) :
    On(name, callback) /\ UNCHANGED <<cliVars, wire, stepVars>>

Issue ==
  \E name \in MethodNames, id \in ClientIds : \E params \in ParamsOf(name) :
    /\ ClientRequest(name, id, params)
    /\ wire' = ToServer(write_request(request_t(id, name, params)))
    /\ UNCHANGED <<srvVars, stepVars>>

Notify ==
  \E name \in MethodNames : \E params \in ParamsOf(name) :
    /\ ClientNotify(name, params)
    /\ wire' = ToServer(write_request(request_t(IdNull, name, params)))
    /\ UNCHANGED <<srvVars, stepVars>>

Serve ==
  /\ wire.to = "server"
  /\ Call("string", wire.text)
  /\ wire' = IF srvRet'.text = JEmpty THEN NoWire ELSE ToClient(srvRet'.text)
  /\ UNCHANGED <<cliVars, stepVars>>

Resolve ==
  /\ wire.to = "client"
  /\ ClientCall(wire.text)
  /\ wire' = NoWire
  /\ UNCHANGED <<srvVars, stepVars>>

Next == Register \/ Issue \/ Notify \/ Serve \/ Resolve

Spec == Init /\ [][Next]_vars

(***************************************************************************)
(* Reading the client's tables and its last operation.                     *)
(***************************************************************************)
\* the callbacks the tables p hold
Stored(p) == UNION {{p[name][id] : id \in DOMAIN p[name]} : name \in MethodNames}
Callbacks == 1..MaxIssues
\* the callbacks passed to client::request so far
Passed == 1..(nextCb - 1)
\* the id a response text decodes to
ResponseId(text) == read_response("raw", text).v.id
\* an error of code internal that reports an id as not found
IsNotFound(e) == e.code = internal /\ e.data.has /\ Contains(e.data.v, "not found")

(***************************************************************************)
(* Claims about client::request and client::call.                         *)
(***************************************************************************)
\* C6: in every step of a sequence of request, notify and call operations, a
\* callback stored by an accepted request has been invoked at most once; it is
\* invoked only in a step that removes its entry; an entry is removed only by
\* a call whose response decodes to the entry's id; and a removed callback is
\* never stored again.
C6_AtMostOnce ==
  [][ /\ \A cb \in Callbacks : cbCount'[cb] <= 1
      /\ \A cb \in Callbacks : cbCount'[cb] > cbCount[cb]
           => cb \in Stored(pending) /\ cb \notin Stored(pending')
      /\ \A name \in MethodNames : \A id \in DOMAIN pending[name] :
           (id \notin DOMAIN pending'[name] \/ pending'[name][id] # pending[name][id])
           => /\ cliLast'.op = "call"
              /\ read_response("raw", cliLast'.text).ok
              /\ ResponseId(cliLast'.text) = id
              /\ id \notin DOMAIN pending'[name]
      /\ \A cb \in Passed : cb \notin Stored(pending) => cb \notin Stored(pending')
    ]_vars

C6_Witness ==
  /\ cliLast.op = "call" /\ Len(cliLast.invoked) = 1
  /\ cbCount[cliLast.invoked[1].cb] = 1
  /\ cliLast.invoked[1].cb \notin Stored(pending)
  /\ Stored(pending) # {}

\* C7 as stated: when call is passed the same text twice in a row and the
\* text's id was pending before the first call, the first call invoked the
\* stored callback and removed the entry, and the second call returns an
\* internal error reporting the id as not found and invokes no callback.
C7_AsStated ==
  [][ (/\ cliLast.op = "call" /\ cliLast.matches # {}
       /\ cliLast'.op = "call" /\ cliLast'.text = cliLast.text)
      => /\ Len(cliLast.invoked) = 1
         /\ cliLast.invoked[1].cb \notin Stored(pending)
         /\ IsNotFound(cliLast'.ret)
         /\ cliLast'.invoked = <<>>
    ]_vars

\* the response text decodes into the response shape of method name and has
\* a result or an error member
WellFormedFor(name, text) ==
  /\ read_response(result_t(name), text).ok
  /\ \/ read_response(result_t(name), text).v.result.has
     \/ read_response(result_t(name), text).v.error.has

\* C7 amended: when call is passed the same text twice in a row, the text's id
\* was pending under exactly one method before the first call, and the text
\* decodes into that method's response shape with a result or an error
\* member, the first call invoked the stored callback, returned no error and
\* removed the entry, and the second call returns an internal error reporting
\* the id as not found, invokes no callback and changes no table.
C7_ResolveTwice ==
  [][ (/\ cliLast.op = "call" /\ Cardinality(cliLast.matches) = 1
       /\ \A name \in cliLast.matches : WellFormedFor(name, cliLast.text)
       /\ cliLast'.op = "call" /\ cliLast'.text = cliLast.text)
      => /\ Len(cliLast.invoked) = 1
         /\ cliLast.invoked[1].cb \notin Stored(pending)
         /\ cbCount[cliLast.invoked[1].cb] = 1
         /\ cliLast.ret = error0
         /\ \A name \in cliLast.matches : ResponseId(cliLast.text) \notin DOMAIN pending[name]
         /\ IsNotFound(cliLast'.ret)
         /\ cliLast'.invoked = <<>>
         /\ cbCount' = cbCount
         /\ pending' = pending
    ]_vars

\* the state after the second of the two calls
C7_Witness ==
  /\ cliLast.op = "call" /\ cliLast.again
  /\ cliLast.matches = {}
  /\ IsNotFound(cliLast.ret)
  /\ cliLast.invoked = <<>>
  /\ ResponseId(cliLast.text).k = "str"

\* C9: a request with a non-null id that is already in the method's table
\* returns accepted = false, leaves every table as it is and invokes nothing;
\* and the callback a call invokes is the one the first table holding the id
\* stored before the call, so never the rejected one.
C9_DuplicateRejected ==
  [][ /\ (cliLast'.op = "request" /\ cliLast'.id \in DOMAIN pending[cliLast'.name])
           => /\ ~cliLast'.accepted
              /\ pending' = pending
              /\ cbCount' = cbCount
              /\ cliLast'.cb \notin Stored(pending')
      /\ (cliLast'.op = "call" /\ cliLast'.invoked # <<>>)
           => \E i \in 1..Len(Methods) :
                /\ ResponseId(cliLast'.text) \in DOMAIN pending[Methods[i]]
                /\ \A j \in 1..(i - 1) : ResponseId(cliLast'.text) \notin DOMAIN pending[Methods[j]]
                /\ cliLast'.invoked =
                     <<CallbackCall(pending[Methods[i]][ResponseId(cliLast'.text)],
                                    cliLast'.invoked[1].arg, ResponseId(cliLast'.text))>>
      /\ \A cb \in Passed : cb \notin Stored(pending) => cbCount'[cb] = cbCount[cb]
    ]_vars

C9_Witness ==
  /\ cliLast.op = "request" /\ cliLast.id.k # "null" /\ ~cliLast.accepted
  /\ cliLast.id \in DOMAIN pending[cliLast.name]
  /\ pending[cliLast.name][cliLast.id] < cliLast.cb

(***************************************************************************)
(* Claims about the client and the server connected.                       *)
(***************************************************************************)
\* the step passes the text in flight to client::call
ResolveStep == wire.to = "client" /\ wire'.to = "none"
\* the text in flight to the client is what server::call returned for srvIn
ServerResponseInFlight ==
  /\ srvPc = "returned" /\ srvIn.rt = "string"
  /\ wire.to = "client" /\ wire.text = srvRet.text
\* the id of the request the server was passed
ServedId == read_request("raw", srvIn.text).v.id
MethodIndex(name) == CHOOSE i \in 1..Len(Methods) : Methods[i] = name

\* C8 as stated: when the server's response to the request of an accepted
\* request<M> whose handler succeeded with value r is passed to call, the
\* callback of that request is called exactly once, with the success value r
\* and the id, and call returns no error.
C8_AsStated ==
  [][ (/\ ResolveStep /\ ServerResponseInFlight /\ HandlerSucceeded
       /\ ServedId.k # "null"
       /\ ServedId \in DOMAIN pending[srvInv[1].method])
      => LET cb == pending[srvInv[1].method][ServedId] IN
           /\ cliLast'.invoked = <<CallbackCall(cb, Ok(srvInv[1].result.v), ServedId)>>
           /\ cliLast'.ret = error0
           /\ cbCount'[cb] = 1
    ]_vars

\* C8 amended: when the server's response to the request of an accepted
\* request<M>, whose handler succeeded with a value r that the codec can
\* write, is passed to call, and the id is pending under no method declared
\* before M, the callback of that request is called exactly once, with the
\* success value r and the id, call returns no error and the entry is removed.
C8_RoundTrip ==
  [][ (/\ ResolveStep /\ ServerResponseInFlight /\ ResultWritten
       /\ ServedId.k # "null"
       /\ ServedId \in DOMAIN pending[srvInv[1].method]
       /\ \A j \in 1..(MethodIndex(srvInv[1].method) - 1) :
            ServedId \notin DOMAIN pending[Methods[j]])
      => LET cb == pending[srvInv[1].method][ServedId] IN
           /\ cliLast'.invoked = <<CallbackCall(cb, Ok(srvInv[1].result.v), ServedId)>>
           /\ cliLast'.ret = error0
           /\ cbCount'[cb] = 1
           /\ ServedId \notin DOMAIN pending'[srvInv[1].method]
    ]_vars

\* the state after such a call, for the method declared second
C8_Witness ==
  /\ cliLast.op = "call" /\ wire.to = "none"
  /\ srvPc = "returned" /\ srvIn.rt = "string" /\ srvRet.text = cliLast.text
  /\ ResultWritten /\ srvInv[1].method = "bar"
  /\ Len(cliLast.invoked) = 1
  /\ cliLast.invoked[1].arg = Ok(srvInv[1].result.v)
  /\ cliLast.invoked[1].id = ServedId
  /\ cliLast.ret = error0

(***************************************************************************)
(* Further claims about server::call.                                      *)
(***************************************************************************)
\* the elements server::call works through: those of a batch, or the text
\* itself when it is valid JSON and no array
Elements(text) ==
  IF ~validate_json(text) THEN <<>>
  ELSE IF text.t = "arr" THEN text.a
  ELSE <<text>>

\* the handler invocation that processing the element makes with handlers h
InvocationOf(h, text) ==
  LET name == NamedMethod(text)
      params == read_request(params_t(name), text).v.params
  IN  Invocation(name, params, invoke(h[name], name, params))

\* the handler invocations of the elements from the i-th on, in their order
RECURSIVE InvocationsFrom(_, _, _)
InvocationsFrom(h, elems, i) ==
  IF i > Len(elems) THEN <<>>
  ELSE (IF Runs(elems[i]) THEN <<InvocationOf(h, elems[i])>> ELSE <<>>)
         \o InvocationsFrom(h, elems, i + 1)

\* C11: a single request whose envelope decodes and whose version is not
\* "2.0" is answered by one response with the request's id and an
\* invalid_request error whose data cites the version, whatever the method
\* and the params; no handler is invoked.
C11_VersionMismatch ==
  (/\ ReturnedSingle /\ read_request("raw", srvIn.text).ok
   /\ read_request("raw", srvIn.text).v.version # supported_version)
  => /\ OneResponse(srvRet)
     /\ Get(Emitted(srvRet)[1], "id") = ElemId(srvIn.text)
     /\ IsError(Emitted(srvRet)[1], invalid_request)
     /\ Has(Get(Emitted(srvRet)[1], "error"), "data")
     /\ Contains(Get(Get(Emitted(srvRet)[1], "error"), "data").s,
                 read_request("raw", srvIn.text).v.version)
     /\ srvInv = <<>>

\* a request of version "1.0" for a registered method with valid params and a
\* registered handler, answered
C11_Witness ==
  /\ ReturnedSingle
  /\ srvIn.text = Request(JStr("1.0"), JStr("foo"), JInt(1), JInt(1))
  /\ handlers["foo"] = "ok"
  /\ IsError(Emitted(srvRet)[1], invalid_request)

\* C12: a text that is not valid JSON is answered by one response with a
\* parse_error error and a null id; no handler is invoked.
C12_InvalidJson ==
  (srvPc = "returned" /\ ~validate_json(srvIn.text))
  => /\ OneResponse(srvRet)
     /\ IsError(Emitted(srvRet)[1], parse_error)
     /\ Get(Emitted(srvRet)[1], "id") = JNull
     /\ srvInv = <<>>

C12_Witness ==
  /\ srvPc = "returned" /\ srvIn.text = JInvalid
  /\ srvRet.rt = "string" /\ IsError(srvRet.text, parse_error)

\* the value returned is of the representation the caller selected: a string
\* holding nothing, one response object or an array of response objects, or
\* a vector of responses
Representation(return_t, ret) ==
  /\ ret.rt = return_t
  /\ ret.rt = "string" => ret.text.t \in {"empty", "obj", "arr"}
  /\ \A i \in 1..Len(Emitted(ret)) : Emitted(ret)[i].t = "obj"

C17_ResultXorError ==
  srvPc = "returned"
  => \A i \in 1..Len(Emitted(srvRet)) :
       Has(Emitted(srvRet)[i], "result") <=> ~Has(Emitted(srvRet)[i], "error")

\* a batch answered by a response with a result and a response with an error
C17_Witness ==
  /\ srvPc = "returned" /\ Len(Emitted(srvRet)) = 3
  /\ Has(Emitted(srvRet)[1], "result")
  /\ Has(Emitted(srvRet)[2], "error")
  /\ IsError(Emitted(srvRet)[3], parse_error)

C19_HandlerInvocation ==
  srvPc = "returned"
  => LET elems == Elements(srvIn.text) IN
       /\ Len(srvInv) = Cardinality({i \in 1..Len(elems) : Runs(elems[i])})
       /\ \A name \in MethodNames :
            Cardinality({k \in 1..Len(srvInv) : srvInv[k].method = name})
              = Cardinality({i \in 1..Len(elems) : Runs(elems[i]) /\ NamedMethod(elems[i]) = name})
       /\ \A k \in 1..Len(srvInv) :
            \E i \in 1..Len(elems) : Runs(elems[i]) /\ srvInv[k] = InvocationOf(handlers, elems[i])
       /\ Len(elems) = 1 =>
            srvInv = IF Runs(elems[1]) THEN <<InvocationOf(handlers, elems[1])>> ELSE <<>>

\* a notification for bar whose handler ran, while foo's handler differs
C19_Witness ==
  /\ ReturnedSingle /\ NullId(srvIn.text)
  /\ handlers["foo"] = "fail" /\ handlers["bar"] = "ok"
  /\ Len(srvInv) = 1 /\ srvInv[1].method = "bar" /\ srvInv[1].result.ok
  /\ NoResponse(srvRet)

\* C20: the handler invocations of a batch are those of its elements, in the
\* order of the elements.
C20_BatchOrder ==
  (srvPc = "returned" /\ srvIn.text.t = "arr")
  => srvInv = InvocationsFrom(handlers, srvIn.text.a, 1)

\* a batch whose first and third element invoke different handlers
C20_Witness ==
  /\ srvPc = "returned" /\ srvIn.text.t = "arr" /\ Len(srvIn.text.a) = 3
  /\ Len(srvInv) = 2
  /\ srvInv[1].method = "bar" /\ srvInv[2].method = "foo"
  /\ ~Runs(srvIn.text.a[2])

(***************************************************************************)
(* Further claims about client::request, client::notify and client::call.  *)
(***************************************************************************)
\* the id as the not-found error writes it
IdShown(id) == IF id.k = "str" THEN "'" \o id.s \o "'" ELSE as_text(write_id(id))
\* the first declared method among names
FirstOf(names) == Methods[Min({i \in 1..Len(Methods) : Methods[i] \in names})]

\* C14: a request with the null id, and every notify, returns the text of the
\* request (null id, the method's name, version "2.0") with accepted = false,
\* stores no callback and leaves every pending table as it is.
C14_NullIdNotStored ==
  [][ ((cliLast'.op = "request" /\ cliLast'.id = IdNull) \/ cliLast'.op = "notify")
      => /\ pending' = pending
         /\ cbCount' = cbCount
         /\ nextCb' = nextCb
         /\ cliLast'.op = "request" => ~cliLast'.accepted
         /\ read_request("raw", cliLast'.text).ok
         /\ read_request("raw", cliLast'.text).v.id = IdNull
         /\ read_request("raw", cliLast'.text).v.method = cliLast'.name
         /\ read_request("raw", cliLast'.text).v.version = supported_version
         /\ Has(cliLast'.text, "params")
    ]_vars

\* a request with the null id made while a callback is pending
C14_Witness ==
  /\ cliLast.op = "request" /\ cliLast.id = IdNull /\ ~cliLast.accepted
  /\ Stored(pending) # {}
  /\ Get(cliLast.text, "id") = JNull

\* C15: a call with a response that decodes and whose id no pending table
\* holds returns an internal error whose data shows the id, invokes no
\* callback and leaves every pending table as it is.
C15_UnknownId ==
  [][ (/\ cliLast'.op = "call" /\ read_response("raw", cliLast'.text).ok
       /\ \A name \in MethodNames : ResponseId(cliLast'.text) \notin DOMAIN pending[name])
      => /\ cliLast'.ret.code = internal
         /\ cliLast'.ret.data = Some("id: " \o IdShown(ResponseId(cliLast'.text)) \o " not found")
         /\ cliLast'.ret.message = code_as_sv(internal)
         /\ cliLast'.invoked = <<>>
         /\ pending' = pending
         /\ cbCount' = cbCount
    ]_vars

\* a response with an id never issued, while another id is pending
C15_Witness ==
  /\ cliLast.op = "call" /\ ~cliLast.again
  /\ read_response("raw", cliLast.text).ok
  /\ ResponseId(cliLast.text) = IdInt(1)
  /\ cliLast.matches = {}
  /\ cliLast.ret.data = Some("id: 1 not found")
  /\ IdStr("a") \in DOMAIN pending["foo"]
  /\ \A cb \in Callbacks : cbCount[cb] = 0

\* C16 as stated: call returns no error exactly when it invoked a callback;
\* a response with an error member for a pending id invokes the callback
\* with a failure value and the id, and call returns no error; a response
\* with a result member for a pending id invokes it with a success value and
\* the id.
C16_AsStated ==
  [][ cliLast'.op = "call"
      => /\ cliLast'.ret = error0 <=> cliLast'.invoked # <<>>
         /\ (cliLast'.matches # {} /\ Has(cliLast'.text, "error"))
              => /\ Len(cliLast'.invoked) = 1
                 /\ ~cliLast'.invoked[1].arg.ok
                 /\ cliLast'.invoked[1].id = ResponseId(cliLast'.text)
                 /\ cliLast'.ret = error0
         /\ (cliLast'.matches # {} /\ Has(cliLast'.text, "result"))
              => /\ Len(cliLast'.invoked) = 1
                 /\ cliLast'.invoked[1].arg.ok
                 /\ cliLast'.invoked[1].id = ResponseId(cliLast'.text)
    ]_vars

\* C16 amended: call returns no error exactly when it invoked a callback.
\* For a pending id, with M the first declared method whose table holds it:
\* a response that decodes into M's response shape with a result invokes the
\* callback with that success value and the id, whether or not an error
\* member is present too; one that decodes with an error and no result
\* invokes it with that failure value and the id; in both cases call returns
\* no error.  A response that does not decode into M's shape, or has neither
\* member, invokes nothing and call returns parse_error.
C16_ReturnValue ==
  [][ cliLast'.op = "call"
      => /\ cliLast'.ret = error0 <=> cliLast'.invoked # <<>>
         /\ Len(cliLast'.invoked) <= 1
         /\ cliLast'.matches # {}
              => LET name == FirstOf(cliLast'.matches)
                     id == ResponseId(cliLast'.text)
                     typed == read_response(result_t(name), cliLast'.text)
                 IN  IF typed.ok /\ typed.v.result.has
                       THEN /\ cliLast'.invoked =
                                 <<CallbackCall(pending[name][id], Ok(typed.v.result.v), id)>>
                            /\ cliLast'.ret = error0
                     ELSE IF typed.ok /\ typed.v.error.has
                       THEN /\ cliLast'.invoked =
                                 <<CallbackCall(pending[name][id], Err(typed.v.error.v), id)>>
                            /\ cliLast'.ret = error0
                     ELSE /\ cliLast'.invoked = <<>>
                          /\ cliLast'.ret.code = parse_error
    ]_vars

\* a call that passed a failure value to a callback and returned no error
C16_Witness ==
  /\ cliLast.op = "call" /\ cliLast.matches # {}
  /\ Len(cliLast.invoked) = 1
  /\ ~cliLast.invoked[1].arg.ok
  /\ cliLast.invoked[1].arg.e.code = internal
  /\ cliLast.ret = error0

(***************************************************************************)
(* Claims about batches and about requests that fail to decode.            *)
(***************************************************************************)
\* the responses server::call returns for the text passed on its own
AloneResponses(return_t, h, text) == Emitted(call(return_t, h, text).resp)

\* the responses of the elements from the i-th on, each passed on its own
RECURSIVE AloneFrom(_, _, _, _)
AloneFrom(return_t, h, elems, i) ==
  IF i > Len(elems) THEN <<>>
  ELSE AloneResponses(return_t, h, elems[i]) \o AloneFrom(return_t, h, elems, i + 1)

\* C21: the responses to a non-empty batch are the responses each element
\* gets when passed on its own as a single request, in the order of the
\* elements; a batch all of whose elements get none is answered by the empty
\* list.
C21_BatchIsConcatenation ==
  (srvPc = "returned" /\ srvIn.text.t = "arr" /\ Len(srvIn.text.a) >= 1)
  => /\ IsList(srvRet)
     /\ Emitted(srvRet) = AloneFrom(srvIn.rt, handlers, srvIn.text.a, 1)
     /\ (\A i \in 1..Len(srvIn.text.a) :
           AloneResponses(srvIn.rt, handlers, srvIn.text.a[i]) = <<>>)
        => \/ srvRet.rt = "string" /\ srvRet.text = JArr(<<>>)
           \/ srvRet.rt = "vector" /\ srvRet.vec = <<>>

\* a batch whose first element is answered by an error and whose second by a
\* result
C21_Witness ==
  /\ srvPc = "returned" /\ srvIn.text.t = "arr" /\ Len(srvIn.text.a) = 2
  /\ Len(Emitted(srvRet)) = 2
  /\ Has(Emitted(srvRet)[1], "error")
  /\ Has(Emitted(srvRet)[2], "result")

\* C22: a single request for a registered method whose params do not decode
\* into the method's params shape is answered by one response with the
\* request's id and an invalid_request error; the handler is not invoked.
C22_ParamsFailure ==
  (/\ ReturnedSingle /\ GoodEnvelope(srvIn.text)
   /\ NamedMethod(srvIn.text) \in MethodNames
   /\ ~read_request(params_t(NamedMethod(srvIn.text)), srvIn.text).ok)
  => /\ OneResponse(srvRet)
     /\ Get(Emitted(srvRet)[1], "id") = ElemId(srvIn.text)
     /\ IsError(Emitted(srvRet)[1], invalid_request)
     /\ Get(Get(Emitted(srvRet)[1], "error"), "code") # JInt(invalid_params)
     /\ srvInv = <<>>

\* a request for bar with integer params, bar's handler registered
C22_Witness ==
  /\ ReturnedSingle
  /\ srvIn.text = Request(JStr("2.0"), JStr("bar"), JInt(1), JStr("a"))
  /\ handlers["bar"] = "ok"
  /\ IsError(Emitted(srvRet)[1], invalid_request)
  /\ Get(Emitted(srvRet)[1], "id") = JStr("a")

\* C23: a single text that is valid JSON and does not decode into the
\* request envelope is answered by one invalid_request response, with the id
\* found under /id in the text when there is one that reads as an id, and
\* with a null id otherwise; no handler is invoked.
C23_EnvelopeFailure ==
  (/\ srvPc = "returned" /\ validate_json(srvIn.text) /\ srvIn.text.t # "arr"
   /\ ~read_request("raw", srvIn.text).ok)
  => /\ OneResponse(srvRet)
     /\ IsError(Emitted(srvRet)[1], invalid_request)
     /\ Get(Emitted(srvRet)[1], "id") =
          IF Has(srvIn.text, "id") /\ srvIn.text.o["id"].t \in {"null", "str", "int"}
            THEN srvIn.text.o["id"] ELSE JNull
     /\ srvInv = <<>>

\* a request whose method is a number, answered under its string id
C23_Witness ==
  /\ ReturnedSingle
  /\ ~read_request("raw", srvIn.text).ok
  /\ Get(srvIn.text, "id") = JStr("a")
  /\ IsError(Emitted(srvRet)[1], invalid_request)
  /\ Get(Emitted(srvRet)[1], "id") = JStr("a")

(***************************************************************************)
(* Claims about the pending tables of the client.                          *)
(***************************************************************************)
\* the index of the first declared method whose table in p holds id, 0 if none
FirstTable(p, id) ==
  IF \E i \in 1..Len(Methods) : id \in DOMAIN p[Methods[i]]
    THEN CHOOSE i \in 1..Len(Methods) :
           /\ id \in DOMAIN p[Methods[i]]
           /\ \A j \in 1..(i - 1) : id \notin DOMAIN p[Methods[j]]
    ELSE 0

\* the call recorded in last met a pending id with a text that does not
\* decode into the method's response shape or has neither result nor error
FailedOnPending(last) ==
  /\ last.op = "call" /\ last.matches # {}
  /\ \E i \in 1..Len(Methods) :
       /\ Methods[i] \in last.matches
       /\ \A j \in 1..(i - 1) : Methods[j] \notin last.matches
       /\ ~WellFormedFor(Methods[i], last.text)

\* C24 as stated: a call that meets a pending id with such a text returned
\* parse_error, invoked no callback and removed the entry, and a call for
\* the same id that follows reports the id as not found.
C24_AsStated ==
  [][ FailedOnPending(cliLast)
      => /\ cliLast.ret.code = parse_error
         /\ cliLast.invoked = <<>>
         /\ (cliLast'.op = "call" /\ read_response("raw", cliLast'.text).ok
               /\ ResponseId(cliLast'.text) = ResponseId(cliLast.text))
            => IsNotFound(cliLast'.ret) /\ cliLast'.invoked = <<>>
    ]_vars

\* C24 amended: a call that meets a pending id with such a text returns
\* parse_error, invokes no callback and removes the entry of the first
\* declared method holding the id; when the id was pending under that method
\* only, a call for the same id that follows reports it as not found.
C24_ConsumedOnFailure ==
  [][ /\ FailedOnPending(cliLast')
        => /\ cliLast'.ret.code = parse_error
           /\ cliLast'.invoked = <<>>
           /\ cbCount' = cbCount
           /\ LET name == Methods[FirstTable(pending, ResponseId(cliLast'.text))] IN
                /\ ResponseId(cliLast'.text) \notin DOMAIN pending'[name]
                /\ pending[name][ResponseId(cliLast'.text)] \notin Stored(pending')
      /\ (FailedOnPending(cliLast) /\ Cardinality(cliLast.matches) = 1
            /\ cliLast'.op = "call" /\ read_response("raw", cliLast'.text).ok
            /\ ResponseId(cliLast'.text) = ResponseId(cliLast.text))
         => IsNotFound(cliLast'.ret) /\ cliLast'.invoked = <<>>
    ]_vars

\* a response with neither result nor error met bar's only entry
C24_Witness ==
  /\ cliLast.op = "call" /\ cliLast.matches = {"bar"}
  /\ cliLast.ret = error2(parse_error, Some("Missing key \"result\" or \"error\" in response"))
  /\ cliLast.invoked = <<>>
  /\ pending["bar"] = NoEntries

\* C25: an id enters a method's table only by a request on that method with
\* that id that is accepted, and every accepted request enters its id; an
\* entry leaves only by a call whose response decodes to its id; every other
\* entry stays as it is, whatever the operation.
C25_PendingTable ==
  [][ \A name \in MethodNames : \A id \in ClientIds :
        /\ (id \notin DOMAIN pending[name] /\ id \in DOMAIN pending'[name])
             => /\ cliLast'.op = "request" /\ cliLast'.accepted
                /\ cliLast'.name = name /\ cliLast'.id = id
                /\ pending'[name][id] = cliLast'.cb
        /\ (cliLast'.op = "request" /\ cliLast'.name = name /\ cliLast'.id = id
              /\ cliLast'.accepted)
             => id \notin DOMAIN pending[name] /\ id \in DOMAIN pending'[name]
        /\ (id \in DOMAIN pending[name] /\ id \notin DOMAIN pending'[name])
             => /\ cliLast'.op = "call"
                /\ read_response("raw", cliLast'.text).ok
                /\ ResponseId(cliLast'.text) = id
        /\ (id \in DOMAIN pending[name] /\ id \in DOMAIN pending'[name])
             => pending'[name][id] = pending[name][id]
        /\ (id \in DOMAIN pending[name] /\ cliLast'.op \in {"request", "notify"})
             => id \in DOMAIN pending'[name]
        /\ (id \in DOMAIN pending[name] /\ cliLast'.op = "call"
              /\ (~read_response("raw", cliLast'.text).ok \/ ResponseId(cliLast'.text) # id))
             => id \in DOMAIN pending'[name]
    ]_vars

\* an entry that stayed while a request with another id was made and
\* resolved
C25_Witness ==
  /\ cliLast.op = "call" /\ read_response("raw", cliLast.text).ok
  /\ ResponseId(cliLast.text) = IdInt(1)
  /\ Len(cliLast.invoked) = 1
  /\ pending["foo"] = (IdStr("a") :> 1)
  /\ pending["bar"] = NoEntries
  /\ nextCb = 3

\* C26: a call removes at most one entry: the one under the id of the
\* response in the first declared method whose table holds it, and it
\* invokes no other callback than that entry's; every other entry of every
\* table stays as it is.
C26_OneEntry ==
  [][ cliLast'.op = "call"
      => /\ Cardinality(Stored(pending) \ Stored(pending')) <= 1
         /\ \A name \in MethodNames : \A id \in DOMAIN pending[name] :
              (id \notin DOMAIN pending'[name] \/ pending'[name][id] # pending[name][id])
              => /\ read_response("raw", cliLast'.text).ok
                 /\ id = ResponseId(cliLast'.text)
                 /\ name = Methods[FirstTable(pending, id)]
         /\ \A k \in 1..Len(cliLast'.invoked) :
              /\ FirstTable(pending, ResponseId(cliLast'.text)) # 0
              /\ cliLast'.invoked[k].cb =
                   pending[Methods[FirstTable(pending, ResponseId(cliLast'.text))]]
                          [ResponseId(cliLast'.text)]
         /\ \A name \in MethodNames : DOMAIN pending'[name] \subseteq DOMAIN pending[name]
    ]_vars

\* the same id was pending under foo and bar; the call invoked foo's callback
\* and bar's entry is still there
C26_Witness ==
  /\ cliLast.op = "call" /\ cliLast.matches = {"foo", "bar"}
  /\ Len(cliLast.invoked) = 1
  /\ ResponseId(cliLast.text) \notin DOMAIN pending["foo"]
  /\ ResponseId(cliLast.text) \in DOMAIN pending["bar"]
  /\ cliLast.invoked[1].cb # pending["bar"][ResponseId(cliLast.text)]
  /\ cbCount[pending["bar"][ResponseId(cliLast.text)]] = 0

C30_NoNullKey ==
  [][ /\ \A name \in MethodNames : IdNull \notin DOMAIN pending[name]
      /\ \A name \in MethodNames : IdNull \notin DOMAIN pending'[name]
      /\ (/\ cliLast'.op = "call" /\ read_response("raw", cliLast'.text).ok
          /\ ResponseId(cliLast'.text) = IdNull)
         => /\ cliLast'.ret = error2(internal, Some("id: null not found"))
            /\ cliLast'.invoked = <<>>
            /\ pending' = pending
            /\ cbCount' = cbCount
    ]_vars

\* a response without an id member reported as not found while a callback
\* is pending
C30_Witness ==
  /\ cliLast.op = "call" /\ read_response("raw", cliLast.text).ok
  /\ ~Has(cliLast.text, "id") /\ Has(cliLast.text, "result")
  /\ cliLast.ret = error2(internal, Some("id: null not found"))
  /\ Stored(pending) # {}

(***************************************************************************)
(* client::call in steps, for callers that re-enter the client from a      *)
(* callback and for callers that run side by side.  The steps are the      *)
(* lookup (the generic read and methods.any up to the copy of the entry),  *)
(* the typed read with the callback invocation, and the erase through the  *)
(* iterator of the lookup.  A frame is one activation of client::call that *)
(* found an entry; it says whether its iterator is still valid, or was     *)
(* invalidated by a rehash of the table or by the erase of its element.    *)
(***************************************************************************)
MaxDepth == 2
\* the requests the callers in steps issue
MaxStepIssues == 2

Frame(json_response, name, id, cb, matches) ==
  [text |-> json_response, name |-> name, id |-> id, cb |-> cb, matches |-> matches,
   it |-> "valid", pc |-> "found", ret |-> error0, invoked |-> <<>>]

Top(c) == frames[c][Len(frames[c])]
InCallback(c) == frames[c] # <<>> /\ Top(c).pc = "in_callback"
\* the process ended in the undefined behaviour of an erase
Crashed == \E c \in Callers : frames[c] # <<>> /\ Top(c).pc = "crashed"

\* caller c may begin an operation: it is in none or inside a callback, and
\* callers that serialize begin one only when no other caller is in one
CanStart(c) ==
  /\ ~Crashed
  /\ frames[c] = <<>> \/ InCallback(c)
  /\ sync => \A d \in Callers \ {c} : frames[d] = <<>>

\* the frames after the iterators to the elements of name's table under ids
\* became invalid, by how: "rehashed" or "erased"
Invalidated(fs, name, ids, how) ==
  [c \in Callers |->
     [i \in 1..Len(fs[c]) |->
        IF fs[c][i].name = name /\ fs[c][i].id \in ids /\ fs[c][i].it # "erased"
          THEN [fs[c][i] EXCEPT !.it = how] ELSE fs[c][i]]]

\* what client::call returns and records
CallReturned(json_response, ret, invoked, matches) ==
  [op |-> "call", text |-> json_response, ret |-> ret, invoked |-> invoked,
   matches |-> matches, again |-> FALSE]

\* a variant in which the entry is erased before the callback is invoked
during_callback_erased(p, name, id) == erase(p, name, id)

\* the pending tables while the callback of the entry under id runs: the
\* erase comes after the invocation
during_callback(p, name, id) == p

\* client::request by caller c; an insertion may rehash the table, which
\* invalidates the iterators into it
StepRequest(c, name, id, params) ==
  /\ CanStart(c) /\ nextCb <= MaxStepIssues
  /\ ClientRequest(name, id, params)
  /\ \E rehash \in BOOLEAN :
       /\ rehash => cliLast'.accepted
                      /\ Invalidated(frames, name, DOMAIN pending[name], "rehashed") # frames
       /\ frames' = IF rehash THEN Invalidated(frames, name, DOMAIN pending[name], "rehashed")
                    ELSE frames
  /\ UNCHANGED sync

\* client::notify by caller c
StepNotify(c, name, params) ==
  /\ CanStart(c)
  /\ ClientNotify(name, params)
  /\ UNCHANGED stepVars

\* lines 415-431: the generic read and the scan for a table holding the id;
\* call returns at once when the read fails or no table holds the id
CallLookup(c, json_response) ==
  /\ CanStart(c) /\ Len(frames[c]) < MaxDepth
  /\ LET response == read_response("raw", json_response) IN
     IF ~response.ok
       THEN /\ cliLast' = CallReturned(json_response,
                            error2(parse_error, Some(format_error(response.e))), <<>>, {})
            /\ UNCHANGED frames
     ELSE LET res == response.v
              found == {i \in 1..Len(Methods) : res.id \in DOMAIN pending[Methods[i]]}
          IN  IF found = {}
                THEN /\ cliLast' = CallReturned(json_response, id_not_found(res.id), <<>>, {})
                     /\ UNCHANGED frames
                ELSE /\ frames' = [frames EXCEPT ![c] =
                          Append(@, Frame(json_response, Methods[Min(found)], res.id,
                                          pending[Methods[Min(found)]][res.id],
                                          Matches(pending, json_response)))]
                     /\ UNCHANGED cliLast
  /\ UNCHANGED <<pending, nextCb, cbCount, sync>>

\* lines 430-447: the typed read, and the callback invoked with the result
\* or the error
CallInvoke(c) ==
  /\ ~Crashed /\ frames[c] # <<>> /\ Top(c).pc = "found"
  /\ LET f == Top(c)
         copy == [name \in MethodNames |-> IF name = f.name THEN (f.id :> f.cb) ELSE NoEntries]
         out == visit_pending(copy, f.name, [id |-> f.id], f.text)
     IN  /\ frames' = [frames EXCEPT ![c][Len(frames[c])] =
                         [f EXCEPT !.pc = IF out.invoked # <<>> THEN "in_callback" ELSE "erasing",
                                   !.ret = out.ret, !.invoked = out.invoked]]
         /\ cbCount' = [cb \in DOMAIN cbCount |->
                          cbCount[cb] + Cardinality({i \in 1..Len(out.invoked) : out.invoked[i].cb = cb})]
         /\ pending' = IF out.invoked # <<>> THEN during_callback(pending, f.name, f.id)
                       ELSE pending
  /\ UNCHANGED <<nextCb, cliLast, sync>>

\* line 448: the callback has returned, the entry is erased through the
\* iterator and call returns.  Erasing through an iterator that is no longer
\* valid is undefined: nothing is erased, or another element of the table
\* is, or the process ends.
CallErase(c) ==
  /\ ~Crashed /\ frames[c] # <<>> /\ Top(c).pc \in {"in_callback", "erasing"}
  /\ LET f == Top(c)
         popped == [frames EXCEPT ![c] = SubSeq(@, 1, Len(@) - 1)]
         returned == CallReturned(f.text, f.ret, f.invoked, f.matches)
     IN  \/ /\ f.it = "valid"
            /\ pending' = erase(pending, f.name, f.id)
            /\ frames' = Invalidated(popped, f.name, {f.id}, "erased")
            /\ cliLast' = returned
         \/ /\ f.it # "valid"
            /\ pending' = pending
            /\ frames' = popped
            /\ cliLast' = returned
         \/ /\ f.it # "valid"
            /\ \E id \in DOMAIN pending[f.name] :
                 /\ pending' = erase(pending, f.name, id)
                 /\ frames' = Invalidated(popped, f.name, {id}, "erased")
            /\ cliLast' = returned
         \/ /\ f.it # "valid"
            /\ frames' = [frames EXCEPT ![c][Len(frames[c])] = [f EXCEPT !.pc = "crashed"]]
            /\ UNCHANGED <<pending, cliLast>>
  /\ UNCHANGED <<nextCb, cbCount, sync>>

\* the method, the ids and the texts the callers in steps use
StepNames == {"foo"}
StepIds == {IdInt(1), IdStr("a")}
StepTexts ==
  { Response(JInt(11), Absent, JInt(1)),
    Response(JInt(11), Absent, JStr("a")),
    Response(Absent, Absent, JInt(1)),
    JInvalid }

(***************************************************************************)
(* One caller whose callbacks re-enter the client.                         *)
(***************************************************************************)
NextReentrant ==
  \/ \E name \in StepNames, id \in StepIds : \E params \in ParamsOf(name) :
       StepRequest(1, name, id, params) /\ UNCHANGED <<srvVars, wire>>
  \/ \E name \in StepNames : \E params \in ParamsOf(name) :
       StepNotify(1, name, params) /\ UNCHANGED <<srvVars, wire>>
  \/ \E json_response \in StepTexts :
       CallLookup(1, json_response) /\ UNCHANGED <<srvVars, wire>>
  \/ CallInvoke(1) /\ UNCHANGED <<srvVars, wire>>
  \/ CallErase(1) /\ UNCHANGED <<srvVars, wire>>

SpecReentrant == Init /\ [][NextReentrant]_vars

(***************************************************************************)
(* Two callers side by side, none re-entering; they serialize their        *)
(* operations (sync) or do not.                                            *)
(***************************************************************************)
InitThreads ==
  InitServer /\ InitClient /\ wire = [to |-> "none"] /\ InitSteps /\ sync \in BOOLEAN

NextThreads ==
  \/ \E c \in Callers, name \in StepNames, id \in StepIds : \E params \in ParamsOf(name) :
       frames[c] = <<>> /\ StepRequest(c, name, id, params) /\ UNCHANGED <<srvVars, wire>>
  \/ \E c \in Callers, name \in StepNames : \E params \in ParamsOf(name) :
       frames[c] = <<>> /\ StepNotify(c, name, params) /\ UNCHANGED <<srvVars, wire>>
  \/ \E c \in Callers, json_response \in StepTexts :
       frames[c] = <<>> /\ CallLookup(c, json_response) /\ UNCHANGED <<srvVars, wire>>
  \/ \E c \in Callers : CallInvoke(c) /\ UNCHANGED <<srvVars, wire>>
  \/ \E c \in Callers : CallErase(c) /\ UNCHANGED <<srvVars, wire>>

SpecThreads == InitThreads /\ [][NextThreads]_vars

(***************************************************************************)
(* C27.  What a callback that re-enters the client meets.                  *)
(***************************************************************************)
\* caller c's frame i is in its callback
InCallbackAt(c, i) == i \in 1..Len(frames[c]) /\ frames[c][i].pc = "in_callback"
\* the step is a client::request of a non-null id issued from inside the
\* callback of caller c's innermost frame i, with that frame's method and id
ReentrantIssue(c, i) ==
  /\ i = Len(frames[c])
  /\ nextCb' # nextCb
  /\ cliLast'.name = frames[c][i].name /\ cliLast'.id = frames[c][i].id
\* the step is a client::call of the same text from inside that callback that
\* returned without finding an entry
ReentrantNotFound(c, i) ==
  /\ i = Len(frames[c])
  /\ frames' = frames /\ cliLast' # cliLast
  /\ cliLast'.op = "call" /\ cliLast'.text = frames[c][i].text
\* the step is the lookup of a client::call of the same text from inside that
\* callback that found an entry
ReentrantFound(c, i) ==
  /\ i = Len(frames[c])
  /\ Len(frames'[c]) = i + 1 /\ frames'[c][i + 1].text = frames[c][i].text
\* the step is the typed read and invocation of the client::call of the same
\* text that was begun inside the callback of frame i
ReentrantInvoke(c, i) ==
  /\ i + 1 = Len(frames[c])
  /\ frames[c][i + 1].text = frames[c][i].text /\ frames[c][i + 1].pc = "found"
  /\ frames'[c] # frames[c]
\* what the claim says of the callback of caller c's frame i
ReentrantBehaviour(c, i) ==
  LET f == frames[c][i] IN
  /\ f.id \in DOMAIN pending[f.name] /\ pending[f.name][f.id] = f.cb
  /\ ReentrantIssue(c, i) => ~cliLast'.accepted /\ pending' = pending
  /\ ~ReentrantNotFound(c, i)
  /\ ReentrantFound(c, i) =>
       /\ frames'[c][i + 1].name = f.name /\ frames'[c][i + 1].id = f.id
       /\ frames'[c][i + 1].cb = f.cb
  /\ ReentrantInvoke(c, i) =>
       /\ frames'[c][i + 1].pc = "in_callback"
       /\ cbCount'[f.cb] = cbCount[f.cb] + 1 /\ cbCount'[f.cb] >= 2

\* C27 as stated: while a callback runs, its id is still in the pending
\* table with that callback, a request of the id on that method issued from
\* inside the callback is rejected, and a client::call of the same text from
\* inside the callback finds the entry and invokes the callback once more.
C27_AsStated ==
  [][\A i \in 1..Len(frames[1]) : InCallbackAt(1, i) => ReentrantBehaviour(1, i)]_vars

\* C27 amended: the same, for a callback whose entry has not been erased by
\* a client::call that was begun inside it and has returned.
C27_CallbackBeforeErase ==
  [][\A i \in 1..Len(frames[1]) :
       InCallbackAt(1, i) /\ frames[1][i].it # "erased" => ReentrantBehaviour(1, i)]_vars

\* C27 witness: inside the callback of a client::call the same text was
\* resolved again, the callback ran a second time for the same entry, and a
\* request of the id made from inside it was rejected.
C27_Witness ==
  /\ Len(frames[1]) = 2
  /\ InCallbackAt(1, 1) /\ InCallbackAt(1, 2)
  /\ frames[1][1].text = frames[1][2].text /\ frames[1][1].cb = frames[1][2].cb
  /\ frames[1][2].it = "valid"
  /\ cbCount[frames[1][1].cb] = 2
  /\ cliLast.op = "request" /\ ~cliLast.accepted
  /\ cliLast.name = frames[1][1].name /\ cliLast.id = frames[1][1].id

(***************************************************************************)
(* C28.  Two callers of one client, serialized or not.                     *)
(***************************************************************************)
\* the step is the erase of caller c's client::call, made for name's entry
\* under id through a valid iterator
ErasesEntry(c, name, id) ==
  /\ frames[c] # <<>> /\ frames'[c] = <<>>
  /\ Top(c).name = name /\ Top(c).id = id /\ Top(c).it = "valid"
  /\ Top(c).cb = pending[name][id]

\* C28: when the two callers serialize their operations, in every
\* interleaving a callback is invoked at most once and only while its entry
\* is in the table, an id enters a table exactly by an accepted request, an
\* entry leaves only by the erase of the client::call that looked it up, keeps
\* its callback meanwhile and never comes back, and the entry of a
\* client::call in progress is in the table with its iterator valid; a
\* callback is invoked twice only when the callers do not serialize.
C28_Serialized ==
  [][ /\ (\E cb \in Callbacks : cbCount'[cb] >= 2) => ~sync
      /\ sync =>
           /\ \A cb \in Callbacks : cbCount'[cb] <= 1
           /\ \A cb \in Callbacks : cbCount'[cb] > cbCount[cb]
                => cb \in Stored(pending) /\ cb \in Stored(pending')
           /\ \A name \in MethodNames : \A id \in ClientIds :
                /\ (id \notin DOMAIN pending[name] /\ id \in DOMAIN pending'[name])
                     => /\ cliLast'.op = "request" /\ cliLast'.accepted
                        /\ cliLast'.name = name /\ cliLast'.id = id
                        /\ pending'[name][id] = cliLast'.cb
                /\ (nextCb' # nextCb /\ cliLast'.name = name /\ cliLast'.id = id
                      /\ cliLast'.accepted)
                     => id \notin DOMAIN pending[name] /\ id \in DOMAIN pending'[name]
                /\ (id \in DOMAIN pending[name] /\ id \notin DOMAIN pending'[name])
                     => \E c \in Callers : ErasesEntry(c, name, id)
                /\ (id \in DOMAIN pending[name] /\ id \in DOMAIN pending'[name])
                     => pending'[name][id] = pending[name][id]
           /\ \A cb \in Callbacks :
                cb < nextCb /\ cb \notin Stored(pending) => cb \notin Stored(pending')
           /\ \A c \in Callers : \A i \in 1..Len(frames'[c]) :
                LET f == frames'[c][i] IN
                /\ f.it = "valid" /\ f.pc # "crashed"
                /\ f.id \in DOMAIN pending'[f.name] /\ pending'[f.name][f.id] = f.cb
    ]_vars

\* C28 witness: the callers do not serialize, both looked the same entry up
\* before either erased it, and its callback has been invoked by both
C28_Witness ==
  /\ ~sync
  /\ frames[1] # <<>> /\ frames[2] # <<>>
  /\ Top(1).name = Top(2).name /\ Top(1).id = Top(2).id /\ Top(1).cb = Top(2).cb
  /\ Top(1).pc = "in_callback" /\ Top(2).pc = "in_callback"
  /\ cbCount[Top(1).cb] = 2

(***************************************************************************)
(* C31.  What server::on changes, and what server::call leaves alone.      *)
(***************************************************************************)
\* C31: a registration sets the handler of the method it names to the
\* callback it was given and leaves every other method's handler as it was;
\* the methods are the same set in every state; a step that is not a
\* registration, server::call included, changes no handler; and the call
\* that follows a registration invokes, for that method, the callback just
\* registered, and for every method the handler registered under its name.
C31_OnReplacesOne ==
  [][ /\ DOMAIN handlers = MethodNames /\ DOMAIN handlers' = MethodNames
      /\ srvIn'.rt = "on" =>
           /\ srvIn'.name \in MethodNames
           /\ handlers'[srvIn'.name] = srvIn'.callback
           /\ \A other \in MethodNames \ {srvIn'.name} : handlers'[other] = handlers[other]
      /\ srvIn'.rt # "on" => handlers' = handlers
      /\ srvPc' = "returned" =>
           /\ handlers' = handlers
           /\ \A k \in 1..Len(srvInv') :
                /\ srvInv'[k].result
                     = invoke(handlers[srvInv'[k].method], srvInv'[k].method, srvInv'[k].params)
                /\ (srvIn.rt = "on" /\ srvInv'[k].method = srvIn.name) =>
                     srvInv'[k].result
                       = invoke(srvIn.callback, srvInv'[k].method, srvInv'[k].params)
    ]_vars

\* C31 witness: with a failing handler registered for foo and a succeeding
\* one for bar, a call returned in which foo's invocation failed and bar's
\* succeeded
C31_Witness ==
  /\ srvPc = "returned"
  /\ handlers = [name \in MethodNames |-> IF name = "foo" THEN "fail" ELSE "ok"]
  /\ \E k \in 1..Len(srvInv) : srvInv[k].method = "foo" /\ ~srvInv[k].result.ok
  /\ \E k \in 1..Len(srvInv) : srvInv[k].method = "bar" /\ srvInv[k].result.ok

====
